---- MODULE Spec2Model ----
(***************************************************************************)
(* Model of the systemd NRI plugin (systemdplugin.go): the CreateContainer *)
(* handler and the four functions it calls, isSystemdContainer,            *)
(* configureCgroupMount, addSystemdTmpfsMounts and setSystemdEnvironment.  *)
(*                                                                         *)
(* Representation.  A Go string that the code only compares for equality   *)
(* (an argument, a mount option, a type, a source, an id, an annotation)   *)
(* is a TLA+ string.  A Go string that the code takes a prefix of or       *)
(* concatenates (an environment entry "KEY=VALUE", a mount destination,    *)
(* which the NRI library prefixes with "-" to mark a removal) is a         *)
(* sequence of tokens, so that HasPrefix and "+" are computed, not assumed.*)
(* A Go pointer or error that may be nil is a sequence of length 0 (nil)   *)
(* or 1 (the value).                                                       *)
(***************************************************************************)
EXTENDS Integers, Sequences, FiniteSets, TLC

\* ------------------------------------------------------------------ bounds

\* Longest argument vector of a request.
MaxArgs == 2

\* Longest option list of a declared /sys/fs/cgroup mount.
MaxOpts == 3

\* Longest declared environment of a request.
MaxEnv == 2

\* The concurrent invocations the host runtime may have in flight.
Procs == {1, 2}

\* ------------------------------------------------------------- Go values

Nil == <<>>

Some(x) == <<x>>

SeqsUpTo(S, n) == UNION {[1..k -> S] : k \in 0..n}

Range(s) == {s[i] : i \in 1..Len(s)}

\* strings.HasPrefix(s, prefix), on token sequences.
HasPrefix(s, prefix) ==
    /\ Len(s) >= Len(prefix)
    /\ SubSeq(s, 1, Len(prefix)) = prefix

\* The path the plugin probes on the host and looks for in the mounts.
CgroupPath == <<"/sys/fs/cgroup">>

\* The sandbox annotation that carries the pod UID.
PodUidKey == "io.kubernetes.pod.uid"

\* The prefix of a declared container_uuid environment entry.
ContainerUuidPrefix == <<"container_uuid", "=">>

\* api.MarkForRemoval(key): "-" + key.
MarkForRemoval(key) == <<"-">> \o key

\* &api.ContainerAdjustment{}
EmptyAdjustment == [Mounts |-> <<>>, Env |-> <<>>]

\* adjust.AddMount(m): append(a.Mounts, m)
AddMount(adjust, m) == [adjust EXCEPT !.Mounts = Append(@, m)]

\* adjust.RemoveMount(path): append(a.Mounts, &Mount{Destination: MarkForRemoval(path)})
RemoveMount(adjust, path) ==
    [adjust EXCEPT !.Mounts =
        Append(@, [Destination |-> MarkForRemoval(path), Type |-> "",
                   Source |-> "", Options |-> <<>>])]

\* adjust.AddEnv(key, value): append(a.Env, &KeyValue{Key: key, Value: value})
AddEnv(adjust, key, value) ==
    [adjust EXCEPT !.Env = Append(@, [Key |-> key, Value |-> value])]

\* --------------------------------------------------------- the host probe

\* The outcomes of os.Stat("/sys/fs/cgroup"): success, "no such file or
\* directory", or another error (permission denied).
StatOutcomes == {"ok", "ENOENT", "EACCES"}

\* A test for any error in place of os.IsNotExist.
IsNotExist_AnyError(err) == err # "ok"

\* os.IsNotExist(err)
IsNotExist(err) == err = "ENOENT"

\* ------------------------------------------------------------ the plugin

\* The entrypoints that isSystemdContainer accepts.
SystemdCommands == {"/sbin/init", "/lib/systemd/systemd", "/usr/lib/systemd/systemd"}

\* isSystemdContainer with the switch applied to every argument.
isSystemdContainer_AnyArg(container) ==
    \E i \in 1..Len(container.Args) : container.Args[i] \in SystemdCommands

isSystemdContainer(container) ==
    IF Len(container.Args) = 0
    THEN FALSE
    ELSE LET cmd == container.Args[1]
         IN  cmd \in SystemdCommands

\* The loop of configureCgroupMount that finds the first mount whose
\* destination is dest, from index i on; Nil when there is none.
RECURSIVE FindMount(_, _, _)
FindMount(mounts, dest, i) ==
    IF i > Len(mounts)
    THEN Nil
    ELSE IF mounts[i].Destination = dest
         THEN Some(mounts[i])
         ELSE FindMount(mounts, dest, i + 1)

\* The loop of configureCgroupMount that looks for the option ro.
HasRO(options) == \E i \in 1..Len(options) : options[i] = "ro"

\* The options loop with a break after the first ro.
ReplaceRO_FirstOnly(options) ==
    [i \in 1..Len(options) |->
        IF options[i] = "ro" /\ (\A j \in 1..(i - 1) : options[j] # "ro")
        THEN "rw"
        ELSE options[i]]

\* The options loop that appends every option as it is.
ReplaceRO_Identity(options) == [i \in 1..Len(options) |-> options[i]]

\* The loop of configureCgroupMount that builds the new options.
ReplaceRO(options) ==
    [i \in 1..Len(options) |-> IF options[i] = "ro" THEN "rw" ELSE options[i]]

\* The error configureCgroupMount returns for a missing mount.
ErrCgroupMountRequired == "cgroup mount required for systemd container"

\* configureCgroupMount that returns nil for a missing mount.
configureCgroupMount_MissingSkipped(adjust, container, stat) ==
    IF IsNotExist(stat)
    THEN [adjust |-> adjust, err |-> Nil]
    ELSE LET existingMount == FindMount(container.Mounts, CgroupPath, 1)
         IN  IF existingMount = Nil
             THEN [adjust |-> adjust, err |-> Nil]
             ELSE IF ~HasRO(existingMount[1].Options)
                  THEN [adjust |-> adjust, err |-> Nil]
                  ELSE [adjust |->
                           AddMount(RemoveMount(adjust, CgroupPath),
                                    [Destination |-> existingMount[1].Destination,
                                     Type        |-> existingMount[1].Type,
                                     Source      |-> existingMount[1].Source,
                                     Options     |-> ReplaceRO(existingMount[1].Options)]),
                        err |-> Nil]

\* configureCgroupMount without the RemoveMount call.
configureCgroupMount_NoRemoval(adjust, container, stat) ==
    IF IsNotExist(stat)
    THEN [adjust |-> adjust, err |-> Nil]
    ELSE LET existingMount == FindMount(container.Mounts, CgroupPath, 1)
         IN  IF existingMount = Nil
             THEN [adjust |-> adjust, err |-> Some(ErrCgroupMountRequired)]
             ELSE IF ~HasRO(existingMount[1].Options)
                  THEN [adjust |-> adjust, err |-> Nil]
                  ELSE [adjust |->
                           AddMount(adjust,
                                    [Destination |-> existingMount[1].Destination,
                                     Type        |-> existingMount[1].Type,
                                     Source      |-> existingMount[1].Source,
                                     Options     |-> ReplaceRO(existingMount[1].Options)]),
                        err |-> Nil]

\* configureCgroupMount without the host probe.
configureCgroupMount_NoProbe(adjust, container, stat) ==
    LET existingMount == FindMount(container.Mounts, CgroupPath, 1)
    IN  IF existingMount = Nil
        THEN [adjust |-> adjust, err |-> Some(ErrCgroupMountRequired)]
        ELSE IF ~HasRO(existingMount[1].Options)
             THEN [adjust |-> adjust, err |-> Nil]
             ELSE [adjust |->
                      AddMount(RemoveMount(adjust, CgroupPath),
                               [Destination |-> existingMount[1].Destination,
                                Type        |-> existingMount[1].Type,
                                Source      |-> existingMount[1].Source,
                                Options     |-> ReplaceRO(existingMount[1].Options)]),
                   err |-> Nil]

\* configureCgroupMount; stat is the outcome of its os.Stat call.  The
\* result is the adjustment as the call leaves it and the error returned.
configureCgroupMount(adjust, container, stat) ==
    IF IsNotExist(stat)
    THEN [adjust |-> adjust, err |-> Nil]
    ELSE LET existingMount == FindMount(container.Mounts, CgroupPath, 1)
         IN  IF existingMount = Nil
             THEN [adjust |-> adjust, err |-> Some(ErrCgroupMountRequired)]
             ELSE IF ~HasRO(existingMount[1].Options)
                  THEN [adjust |-> adjust, err |-> Nil]
                  ELSE [adjust |->
                           AddMount(RemoveMount(adjust, CgroupPath),
                                    [Destination |-> existingMount[1].Destination,
                                     Type        |-> existingMount[1].Type,
                                     Source      |-> existingMount[1].Source,
                                     Options     |-> ReplaceRO(existingMount[1].Options)]),
                        err |-> Nil]

\* The table of addSystemdTmpfsMounts.
tmpfsMounts ==
    << [dest |-> <<"/run">>,             mode |-> "mode=755"],
       [dest |-> <<"/run/lock">>,        mode |-> "mode=755"],
       [dest |-> <<"/tmp">>,             mode |-> "mode=1777"],
       [dest |-> <<"/var/log/journal">>, mode |-> "mode=755"] >>

\* existingMounts left empty.
existingMounts_Empty(container) == {}

\* The map existingMounts of addSystemdTmpfsMounts, as the set of its keys.
existingMounts(container) ==
    {container.Mounts[i].Destination : i \in 1..Len(container.Mounts)}

\* The mount addSystemdTmpfsMounts adds for the table entry m.
TmpfsMount(m) ==
    [Destination |-> m.dest, Type |-> "tmpfs", Source |-> "tmpfs",
     Options |-> <<"rw", "rprivate", "nosuid", "nodev", m.mode>>]

\* The loop of addSystemdTmpfsMounts over the table, from entry i on.
RECURSIVE TmpfsLoop(_, _, _)
TmpfsLoop(adjust, container, i) ==
    IF i > Len(tmpfsMounts)
    THEN adjust
    ELSE IF tmpfsMounts[i].dest \in existingMounts(container)
         THEN TmpfsLoop(adjust, container, i + 1)
         ELSE TmpfsLoop(AddMount(adjust, TmpfsMount(tmpfsMounts[i])), container, i + 1)

addSystemdTmpfsMounts(adjust, container) == TmpfsLoop(adjust, container, 1)

\* The loop of setSystemdEnvironment over the declared environment.
hasContainerUUID(container) ==
    \E i \in 1..Len(container.Env) : HasPrefix(container.Env[i], ContainerUuidPrefix)

\* setSystemdEnvironment without the container=other addition.
setSystemdEnvironment_NoMarker(adjust, pod, container) ==
    LET a2 == IF ~hasContainerUUID(container) /\ container.Id # ""
              THEN AddEnv(adjust, "container_uuid", container.Id)
              ELSE adjust
    IN  IF pod # Nil
        THEN IF PodUidKey \in DOMAIN pod[1].Annotations
             THEN IF ~hasContainerUUID(container)
                  THEN AddEnv(a2, "container_uuid", pod[1].Annotations[PodUidKey])
                  ELSE a2
             ELSE a2
        ELSE a2

\* setSystemdEnvironment whose pod branch does not test hasContainerUUID.
setSystemdEnvironment_PodUnchecked(adjust, pod, container) ==
    LET a1 == AddEnv(adjust, "container", "other")
        a2 == IF ~hasContainerUUID(container) /\ container.Id # ""
              THEN AddEnv(a1, "container_uuid", container.Id)
              ELSE a1
    IN  IF pod # Nil
        THEN IF PodUidKey \in DOMAIN pod[1].Annotations
             THEN AddEnv(a2, "container_uuid", pod[1].Annotations[PodUidKey])
             ELSE a2
        ELSE a2

\* setSystemdEnvironment; pod is Nil or Some(sandbox).
setSystemdEnvironment(adjust, pod, container) ==
    LET a1 == AddEnv(adjust, "container", "other")
        a2 == IF ~hasContainerUUID(container) /\ container.Id # ""
              THEN AddEnv(a1, "container_uuid", container.Id)
              ELSE a1
    IN  IF pod # Nil
        THEN IF PodUidKey \in DOMAIN pod[1].Annotations
             THEN IF ~hasContainerUUID(container)
                  THEN AddEnv(a2, "container_uuid", pod[1].Annotations[PodUidKey])
                  ELSE a2
             ELSE a2
        ELSE a2

\* CreateContainer run from its first line to its return, as one function
\* of its arguments and the outcome of the host probe: the values returned.
CreateContainer(pod, container, stat) ==
    IF ~isSystemdContainer(container)
    THEN [adjust |-> Nil, updates |-> Nil, err |-> Nil]
    ELSE LET r == configureCgroupMount(EmptyAdjustment, container, stat)
         IN  IF r.err # Nil
             THEN [adjust |-> Nil, updates |-> Nil, err |-> r.err]
             ELSE [adjust |-> Some(setSystemdEnvironment(
                                      addSystemdTmpfsMounts(r.adjust, container),
                                      pod, container)),
                   updates |-> Nil, err |-> Nil]

\* containerName(pod, container)
containerName(pod, container) ==
    IF pod # Nil
    THEN <<pod[1].Name, "/", container.Name>>
    ELSE <<container.Name>>

\* A line handed to the logger: its level, the container name that prefixes
\* it and its text.
LogLine(level, ctrName, msg) == [level |-> level, ctr |-> ctrName, msg |-> msg]

\* The lines configureCgroupMount hands to the logger.
configureCgroupMountLog(container, stat, ctrName) ==
    IF IsNotExist(stat)
    THEN <<LogLine("error", ctrName, "cgroup filesystem not available at /sys/fs/cgroup - skipping systemd support")>>
    ELSE LET existingMount == FindMount(container.Mounts, CgroupPath, 1)
         IN  IF existingMount = Nil
             THEN <<LogLine("error", ctrName, "no existing cgroup mount found - systemd requires /sys/fs/cgroup")>>
             ELSE IF ~HasRO(existingMount[1].Options)
                  THEN <<LogLine("debug", ctrName, "cgroup mount already has rw, skipping")>>
                  ELSE <<LogLine("debug", ctrName, "changed cgroup mount from ro to rw")>>

\* -------------------------------------------------------------- requests

\* First arguments inside and outside the allow-list; each may also follow
\* another argument.
ArgVals == SystemdCommands \cup {"/bin/bash"}

\* Mount options of a declared /sys/fs/cgroup mount.
OptVals == {"ro", "rw", "nosuid"}

\* Type and source of a declared /sys/fs/cgroup mount (cgroup v1, v2).
CgroupKinds == {[Type |-> "cgroup", Source |-> "cgroup"],
                [Type |-> "cgroup2", Source |-> "none"]}

CgroupMounts ==
    {[Destination |-> CgroupPath, Type |-> k.Type, Source |-> k.Source,
      Options |-> o] : k \in CgroupKinds, o \in SeqsUpTo(OptVals, MaxOpts)}

\* A second mount declared at /sys/fs/cgroup, after the first.
ShadowMounts ==
    {[Destination |-> CgroupPath, Type |-> "cgroup", Source |-> "cgroup",
      Options |-> o] : o \in {<<"ro">>, <<"rw">>}}

\* The /sys/fs/cgroup mounts a container declares: none, one, or two.
CgroupLists ==
    {<<>>} \cup {<<m>> : m \in CgroupMounts}
           \cup {<<m, s>> : m \in CgroupMounts, s \in ShadowMounts}

\* The destinations of the tmpfs table.
TmpfsDests == [i \in 1..Len(tmpfsMounts) |-> tmpfsMounts[i].dest]

IsIn(S) == [d \in Range(TmpfsDests) |-> d \in S]

\* The mounts a container declares at the destinations of S, a bind mount each.
BindMounts(S) ==
    LET kept == SelectSeq(TmpfsDests, LAMBDA d : IsIn(S)[d])
    IN  [i \in 1..Len(kept) |->
            [Destination |-> kept[i], Type |-> "bind", Source |-> "/host",
             Options |-> <<"rbind", "ro">>]]

\* Every mount list: any declared subset of the table's destinations,
\* followed by any of the /sys/fs/cgroup lists.
MountLists ==
    {BindMounts(S) \o c : S \in SUBSET Range(TmpfsDests), c \in CgroupLists}

\* Mount lists used where the mounts are not the subject.
BaseMounts ==
    {<<>>,
     <<[Destination |-> CgroupPath, Type |-> "cgroup", Source |-> "cgroup",
        Options |-> <<"nosuid", "noexec", "nodev", "relatime", "ro">>]>>}

\* Declared environment entries: "PATH=/usr/bin", "container_uuid=user-value",
\* "container_uuid_x=1" and "container_uuid" (no value).
EnvVals == {<<"PATH", "=", "/usr/bin">>,
            <<"container_uuid", "=", "user-value">>,
            <<"container_uuid", "_x", "=", "1">>,
            <<"container_uuid">>}

IdVals == {"", "abc123"}

\* The sandbox: absent, without the pod UID annotation, or with it.
PodVals == {Nil,
            Some([Name |-> "test-pod", Annotations |-> <<>>]),
            Some([Name |-> "test-pod", Annotations |-> (PodUidKey :> "xyz")])}

\* Container annotations: none, or the marker the code reserves for later.
AnnotationVals == {<<>>, ("io.systemd.container" :> "true")}

Container(args, mounts, env, id, annotations) ==
    [Name |-> "test-container", Id |-> id, Args |-> args, Env |-> env,
     Mounts |-> mounts, Annotations |-> annotations]

\* Requests that vary the arguments and the annotations.
ArgRequests ==
    {[pod |-> Some([Name |-> "test-pod", Annotations |-> <<>>]),
      container |-> Container(a, m, <<>>, "abc123", n)] :
        a \in SeqsUpTo(ArgVals, MaxArgs), m \in BaseMounts, n \in AnnotationVals}

\* Requests that vary the mounts.
MountRequests ==
    {[pod |-> Some([Name |-> "test-pod", Annotations |-> <<>>]),
      container |-> Container(a, m, <<>>, "abc123", <<>>)] :
        a \in {<<"/sbin/init">>, <<"/bin/bash">>}, m \in MountLists}

\* Requests that vary the environment, the id and the sandbox.
EnvRequests ==
    {[pod |-> p,
      container |-> Container(a, m, e, i, <<>>)] :
        a \in {<<"/usr/lib/systemd/systemd">>, <<"/bin/bash">>}, m \in BaseMounts,
        e \in SeqsUpTo(EnvVals, MaxEnv), i \in IdVals, p \in PodVals}

\* The requests the host runtime sends.
Requests == ArgRequests \cup MountRequests \cup EnvRequests

\* The container of an invocation that has no request.
NoContainer == Container(<<>>, <<>>, <<>>, "", <<>>)

\* The result of an invocation that has not returned.
NoResult == [adjust |-> Nil, updates |-> Nil, err |-> Nil]

\* ------------------------------------------------------------- the state

VARIABLES
    hostStat,    \* what os.Stat("/sys/fs/cgroup") returns on this host
    verbose,     \* the package variable verbose, set from the -verbose flag
    logOut,      \* the lines the latest step wrote to the package logger log
    pc,          \* per invocation: where CreateContainer stands
    pod,         \* per invocation: the argument pod
    container,   \* per invocation: the argument container
    isSystemd,   \* per invocation: what isSystemdContainer returned
    adjust,      \* per invocation: the local adjust
    result,      \* per invocation: the values returned
    applied      \* per invocation: the adjustment the host runtime has
                 \* applied to the container before this call, if any

vars == <<hostStat, verbose, logOut, pc, pod, container, isSystemd, adjust, result, applied>>

\* The lines the logger writes out of those handed to it: main sets the
\* level to debug when verbose is set, otherwise debug lines are dropped.
Emitted(lines) == SelectSeq(lines, LAMBDA l : l.level # "debug" \/ verbose)

\* The lines CreateContainer writes up to the allocation of adjust: the dump
\* of its arguments and the note for a container that is not systemd, both
\* only when verbose is set.
DetectLog(pod_, container_) ==
    LET ctrName == containerName(pod_, container_)
    IN  (IF verbose
         THEN <<LogLine("info", <<"CreateContainer">>, "dump pod, container")>>
         ELSE <<>>)
        \o
        (IF ~isSystemdContainer(container_) /\ verbose
         THEN <<LogLine("info", ctrName, "not a systemd container, skipping")>>
         ELSE <<>>)

\* The lines CreateContainer writes before its final return.
ReturnLog(pod_, container_) ==
    LET ctrName == containerName(pod_, container_)
    IN  IF verbose
        THEN <<LogLine("info", ctrName, "dump ContainerAdjustment")>>
        ELSE <<LogLine("info", ctrName, "systemd support configured")>>

Init ==
    /\ hostStat \in StatOutcomes
    /\ verbose \in BOOLEAN
    /\ logOut = <<>>
    /\ pc = [p \in Procs |-> "idle"]
    /\ pod = [p \in Procs |-> Nil]
    /\ container = [p \in Procs |-> NoContainer]
    /\ isSystemd = [p \in Procs |-> FALSE]
    /\ adjust = [p \in Procs |-> EmptyAdjustment]
    /\ result = [p \in Procs |-> NoResult]
    /\ applied = [p \in Procs |-> Nil]

\* The host runtime calls CreateContainer(ctx, pod, container) with one of
\* the requests; it sends one request at a time.
Call(p) ==
    /\ \A q \in Procs : pc[q] = "idle"
    /\ \E r \in Requests :
          /\ pod' = [pod EXCEPT ![p] = r.pod]
          /\ container' = [container EXCEPT ![p] = r.container]
    /\ pc' = [pc EXCEPT ![p] = "detect"]
    /\ logOut' = <<>>
    /\ UNCHANGED <<hostStat, verbose, isSystemd, adjust, result, applied>>

\* The start of CreateContainer without the return for a container that is
\* not systemd.
Detect_NoEarlyReturn(p) ==
    /\ pc[p] = "detect"
    /\ isSystemd' = [isSystemd EXCEPT ![p] = isSystemdContainer(container[p])]
    /\ adjust' = [adjust EXCEPT ![p] = EmptyAdjustment]
    /\ pc' = [pc EXCEPT ![p] = "cgroup"]
    /\ logOut' = DetectLog(pod[p], container[p])
    /\ UNCHANGED <<hostStat, verbose, pod, container, result, applied>>

\* The start of CreateContainer with adjust kept in a package variable that
\* every invocation shares.
Detect_SharedAdjust(p) ==
    /\ pc[p] = "detect"
    /\ isSystemd' = [isSystemd EXCEPT ![p] = isSystemdContainer(container[p])]
    /\ IF ~isSystemdContainer(container[p])
       THEN /\ result' = [result EXCEPT ![p] = [adjust |-> Nil, updates |-> Nil, err |-> Nil]]
            /\ pc' = [pc EXCEPT ![p] = "done"]
            /\ UNCHANGED adjust
       ELSE /\ adjust' = [q \in Procs |-> EmptyAdjustment]
            /\ pc' = [pc EXCEPT ![p] = "cgroup"]
            /\ UNCHANGED result
    /\ logOut' = DetectLog(pod[p], container[p])
    /\ UNCHANGED <<hostStat, verbose, pod, container, applied>>

\* CreateContainer up to the allocation of adjust: the detector and the
\* return for a container that is not systemd.
Detect(p) ==
    /\ pc[p] = "detect"
    /\ isSystemd' = [isSystemd EXCEPT ![p] = isSystemdContainer(container[p])]
    /\ IF ~isSystemdContainer(container[p])
       THEN /\ result' = [result EXCEPT ![p] = [adjust |-> Nil, updates |-> Nil, err |-> Nil]]
            /\ pc' = [pc EXCEPT ![p] = "done"]
            /\ UNCHANGED adjust
       ELSE /\ adjust' = [adjust EXCEPT ![p] = EmptyAdjustment]
            /\ pc' = [pc EXCEPT ![p] = "cgroup"]
            /\ UNCHANGED result
    /\ logOut' = DetectLog(pod[p], container[p])
    /\ UNCHANGED <<hostStat, verbose, pod, container, applied>>

\* CreateContainer: the call of configureCgroupMount and the return of its error.
CgroupStep(p) ==
    /\ pc[p] = "cgroup"
    /\ LET r == configureCgroupMount(adjust[p], container[p], hostStat)
       IN  /\ adjust' = [adjust EXCEPT ![p] = r.adjust]
           /\ IF r.err # Nil
              THEN /\ result' = [result EXCEPT ![p] = [adjust |-> Nil, updates |-> Nil, err |-> r.err]]
                   /\ pc' = [pc EXCEPT ![p] = "done"]
              ELSE /\ pc' = [pc EXCEPT ![p] = "tmpfs"]
                   /\ UNCHANGED result
    /\ logOut' = Emitted(configureCgroupMountLog(container[p], hostStat,
                                             containerName(pod[p], container[p])))
    /\ UNCHANGED <<hostStat, verbose, pod, container, isSystemd, applied>>

\* CreateContainer: the call of addSystemdTmpfsMounts.
TmpfsStep(p) ==
    /\ pc[p] = "tmpfs"
    /\ adjust' = [adjust EXCEPT ![p] = addSystemdTmpfsMounts(adjust[p], container[p])]
    /\ pc' = [pc EXCEPT ![p] = "env"]
    /\ logOut' = <<>>
    /\ UNCHANGED <<hostStat, verbose, pod, container, isSystemd, result, applied>>

\* CreateContainer: the call of setSystemdEnvironment and the final return.
EnvStep(p) ==
    /\ pc[p] = "env"
    /\ LET a == setSystemdEnvironment(adjust[p], pod[p], container[p])
       IN  /\ adjust' = [adjust EXCEPT ![p] = a]
           /\ result' = [result EXCEPT ![p] = [adjust |-> Some(a), updates |-> Nil, err |-> Nil]]
    /\ pc' = [pc EXCEPT ![p] = "done"]
    /\ logOut' = ReturnLog(pod[p], container[p])
    /\ UNCHANGED <<hostStat, verbose, pod, container, isSystemd, applied>>

\* The host runtime takes the response; the invocation is over.
Respond(p) ==
    /\ pc[p] = "done"
    /\ pc' = [pc EXCEPT ![p] = "idle"]
    /\ pod' = [pod EXCEPT ![p] = Nil]
    /\ container' = [container EXCEPT ![p] = NoContainer]
    /\ isSystemd' = [isSystemd EXCEPT ![p] = FALSE]
    /\ adjust' = [adjust EXCEPT ![p] = EmptyAdjustment]
    /\ result' = [result EXCEPT ![p] = NoResult]
    /\ applied' = [applied EXCEPT ![p] = Nil]
    /\ logOut' = <<>>
    /\ UNCHANGED <<hostStat, verbose>>

Next ==
    \E p \in Procs :
        \/ Call(p)
        \/ Detect(p)
        \/ CgroupStep(p)
        \/ TmpfsStep(p)
        \/ EnvStep(p)
        \/ Respond(p)

Spec == Init /\ [][Next]_vars

\* ------------------------------------------------ concurrent invocations

\* The requests of the concurrent runs: a container that is not systemd, a
\* systemd container without mounts, one whose /sys/fs/cgroup is ro, with an
\* id and a pod UID, and one that declares /tmp, a writable /sys/fs/cgroup
\* and container_uuid, without a sandbox.
ConcRequests ==
    {[pod |-> Nil,
      container |-> [Container(<<"/bin/bash">>, <<>>, <<>>, "id-a", <<>>)
                        EXCEPT !.Name = "ctr-a"]],
     [pod |-> Some([Name |-> "pod-b", Annotations |-> <<>>]),
      container |-> [Container(<<"/sbin/init">>, <<>>, <<>>, "", <<>>)
                        EXCEPT !.Name = "ctr-b"]],
     [pod |-> Some([Name |-> "pod-c", Annotations |-> (PodUidKey :> "xyz")]),
      container |-> [Container(<<"/lib/systemd/systemd">>,
                               <<[Destination |-> CgroupPath, Type |-> "cgroup2",
                                  Source |-> "cgroup", Options |-> <<"ro", "nosuid">>]>>,
                               <<>>, "abc123", <<>>)
                        EXCEPT !.Name = "ctr-c"]],
     [pod |-> Nil,
      container |-> [Container(<<"/usr/lib/systemd/systemd">>,
                               <<[Destination |-> <<"/tmp">>, Type |-> "bind",
                                  Source |-> "/host", Options |-> <<"rbind">>],
                                 [Destination |-> CgroupPath, Type |-> "cgroup",
                                  Source |-> "cgroup", Options |-> <<"rw">>]>>,
                               << <<"container_uuid", "=", "user-value">> >>,
                               "id-d", <<>>)
                        EXCEPT !.Name = "ctr-d"]]}

\* The host runtime calls CreateContainer while other calls are in flight.
CallConc(p) ==
    /\ pc[p] = "idle"
    /\ \E r \in ConcRequests :
          /\ pod' = [pod EXCEPT ![p] = r.pod]
          /\ container' = [container EXCEPT ![p] = r.container]
    /\ pc' = [pc EXCEPT ![p] = "detect"]
    /\ logOut' = <<>>
    /\ UNCHANGED <<hostStat, verbose, isSystemd, adjust, result, applied>>

NextConc ==
    \E p \in Procs :
        \/ CallConc(p)
        \/ Detect(p)
        \/ CgroupStep(p)
        \/ TmpfsStep(p)
        \/ EnvStep(p)
        \/ Respond(p)

SpecConc == Init /\ [][NextConc]_vars

\* ------------------------------------------- applying an adjustment again

\* The destination a mount of an adjustment marks for removal, if it does.
IsMarkedForRemoval(m) == Len(m.Destination) >= 2 /\ m.Destination[1] = "-"

RemovedDestinations(a) ==
    {Tail(a.Mounts[i].Destination) :
        i \in {j \in 1..Len(a.Mounts) : IsMarkedForRemoval(a.Mounts[j])}}

\* The container after the host runtime has applied the adjustment a: the
\* mounts at the removed destinations are removed, the added mounts and the
\* added environment variables are appended.
ApplyAdjustment(c, a) ==
    LET removed == RemovedDestinations(a)
        kept    == SelectSeq(c.Mounts, LAMBDA m : m.Destination \notin removed)
        added   == SelectSeq(a.Mounts, LAMBDA m : ~IsMarkedForRemoval(m))
    IN  [c EXCEPT
            !.Mounts = kept \o added,
            !.Env = @ \o [i \in 1..Len(a.Env) |-> <<a.Env[i].Key, "=", a.Env[i].Value>>]]

\* The host runtime applies the adjustment that invocation p returned to
\* its container and calls CreateContainer again on the result, once.
Reapply(p) ==
    /\ pc[p] = "done"
    /\ result[p].adjust # Nil
    /\ applied[p] = Nil
    /\ \A q \in Procs : q # p => pc[q] = "idle"
    /\ container' = [container EXCEPT ![p] = ApplyAdjustment(@, result[p].adjust[1])]
    /\ applied' = [applied EXCEPT ![p] = result[p].adjust]
    /\ pc' = [pc EXCEPT ![p] = "detect"]
    /\ isSystemd' = [isSystemd EXCEPT ![p] = FALSE]
    /\ adjust' = [adjust EXCEPT ![p] = EmptyAdjustment]
    /\ result' = [result EXCEPT ![p] = NoResult]
    /\ logOut' = <<>>
    /\ UNCHANGED <<hostStat, verbose, pod>>

NextApply ==
    \/ Next
    \/ \E p \in Procs : Reapply(p)

SpecApply == Init /\ [][NextApply]_vars

\* ---------------------------------------------------- terms of the claims

\* Invocation p is past the detector.
Detected(p) == pc[p] \notin {"idle", "detect"}

\* Invocation p has returned an adjustment.
Adjusted(p) == pc[p] = "done" /\ result[p].adjust # Nil

\* The container of p declares a mount at /sys/fs/cgroup.
DeclaresCgroup(p) ==
    \E i \in 1..Len(container[p].Mounts) :
        container[p].Mounts[i].Destination = <<"/sys/fs/cgroup">>

\* The container's /sys/fs/cgroup mount: the first one it declares.
DeclaredCgroup(p) ==
    LET ms == container[p].Mounts
        first == CHOOSE i \in 1..Len(ms) :
                    /\ ms[i].Destination = <<"/sys/fs/cgroup">>
                    /\ \A j \in 1..(i - 1) : ms[j].Destination # <<"/sys/fs/cgroup">>
    IN  ms[first]

\* That mount lists the option ro.
DeclaredCgroupRO(p) ==
    /\ DeclaresCgroup(p)
    /\ \E i \in 1..Len(DeclaredCgroup(p).Options) : DeclaredCgroup(p).Options[i] = "ro"

\* The host has a cgroup filesystem as far as the probe tells: os.Stat of
\* /sys/fs/cgroup does not report that the path does not exist.
HostHasCgroup == hostStat # "ENOENT"

\* The number of entries of the sequence s that satisfy Test.
Count(s, Test(_)) == Cardinality({i \in 1..Len(s) : Test(s[i])})

\* The directives of an adjustment for /sys/fs/cgroup.
IsCgroupRemoval(m) == m.Destination = <<"-", "/sys/fs/cgroup">>

IsCgroupAddition(m) == m.Destination = <<"/sys/fs/cgroup">>

\* The container_uuid additions of an adjustment.
IsUuidEnv(e) == e.Key = "container_uuid"

\* The container of p declares an entry that starts with container_uuid=.
DeclaresUuid(p) ==
    \E i \in 1..Len(container[p].Env) :
        LET e == container[p].Env[i]
        IN  Len(e) >= 2 /\ e[1] = "container_uuid" /\ e[2] = "="

\* The sandbox of p carries the pod UID annotation.
HasPodUid(p) ==
    pod[p] # Nil /\ "io.kubernetes.pod.uid" \in DOMAIN pod[p][1].Annotations

\* ------------------------------------------------------------------ claims

\* C1: isSystemdContainer returns true if and only if the arguments are
\* non-empty and the first one is exactly /sbin/init, /lib/systemd/systemd
\* or /usr/lib/systemd/systemd, whatever the later arguments, the env, the
\* mounts and the annotations are.
C1_DetectorAllowList ==
    \A p \in Procs :
        Detected(p) =>
            (isSystemd[p] <=>
                /\ Len(container[p].Args) > 0
                /\ \/ container[p].Args[1] = "/sbin/init"
                   \/ container[p].Args[1] = "/lib/systemd/systemd"
                   \/ container[p].Args[1] = "/usr/lib/systemd/systemd")

\* C1 witness: the detector has rejected a container whose second argument
\* is an allow-listed path and that carries the systemd annotation.
C1_Witness ==
    \E p \in Procs :
        /\ Detected(p)
        /\ ~isSystemd[p]
        /\ container[p].Args = <<"/bin/bash", "/sbin/init">>
        /\ container[p].Annotations # <<>>
        /\ container[p].Mounts # <<>>

\* C2: for every container the detector does not classify as systemd,
\* CreateContainer returns a nil adjustment, nil updates and a nil error,
\* whatever the mounts, the env and the host probe are.
C2_NonSystemdIgnored ==
    \A p \in Procs :
        (pc[p] = "done" /\ ~isSystemd[p]) =>
            /\ result[p].adjust = Nil
            /\ result[p].updates = Nil
            /\ result[p].err = Nil

\* C2 witness: a /bin/bash container with declared mounts has returned on a
\* host whose probe succeeds.
C2_Witness ==
    \E p \in Procs :
        /\ pc[p] = "done"
        /\ ~isSystemd[p]
        /\ container[p].Args = <<"/bin/bash">>
        /\ DeclaresCgroup(p)
        /\ hostStat = "ok"

\* C3: for every detected systemd container that declares no mount at
\* /sys/fs/cgroup, when the host has a cgroup filesystem, CreateContainer
\* returns a non-nil error with a nil adjustment and nil updates.
C3_MissingCgroupMountFails ==
    \A p \in Procs :
        (pc[p] = "done" /\ isSystemd[p] /\ ~DeclaresCgroup(p) /\ HostHasCgroup) =>
            /\ result[p].err # Nil
            /\ result[p].adjust = Nil
            /\ result[p].updates = Nil

\* C3 witness: a systemd container that declares /tmp but no /sys/fs/cgroup
\* has returned on a host whose probe succeeds.
C3_Witness ==
    \E p \in Procs :
        /\ pc[p] = "done"
        /\ isSystemd[p]
        /\ ~DeclaresCgroup(p)
        /\ container[p].Mounts # <<>>
        /\ hostStat = "ok"
        /\ result[p].err = <<"cgroup mount required for systemd container">>

\* C4: for every detected systemd container for which the cgroup step does
\* not fail (it declares a /sys/fs/cgroup mount, or the host has no cgroup
\* filesystem), CreateContainer returns a non-nil adjustment, nil updates
\* and a nil error, and the environment additions of the adjustment contain
\* container=other exactly once.
C4_SystemdAdjusted ==
    \A p \in Procs :
        (pc[p] = "done" /\ isSystemd[p] /\ (DeclaresCgroup(p) \/ ~HostHasCgroup)) =>
            /\ result[p].adjust # Nil
            /\ result[p].updates = Nil
            /\ result[p].err = Nil
            /\ Count(result[p].adjust[1].Env, LAMBDA e : e.Key = "container") = 1
            /\ Count(result[p].adjust[1].Env,
                     LAMBDA e : e = [Key |-> "container", Value |-> "other"]) = 1

\* C4 witness: a systemd container without a /sys/fs/cgroup mount has
\* returned an adjustment on a host without a cgroup filesystem.
C4_Witness ==
    \E p \in Procs :
        /\ pc[p] = "done"
        /\ isSystemd[p]
        /\ ~DeclaresCgroup(p)
        /\ hostStat = "ENOENT"
        /\ result[p].adjust # Nil

\* C5: if the declared environment contains an entry that starts with
\* container_uuid=, the returned adjustment contains no container_uuid
\* addition, even with a non-empty id and the pod UID annotation.
C5_DeclaredUuidWins ==
    \A p \in Procs :
        (Adjusted(p) /\ DeclaresUuid(p)) =>
            Count(result[p].adjust[1].Env, IsUuidEnv) = 0

\* C5 witness: an adjustment has been returned for a container that
\* declares container_uuid=user-value, has an id and a pod UID.
C5_Witness ==
    \E p \in Procs :
        /\ Adjusted(p)
        /\ DeclaresUuid(p)
        /\ container[p].Id # ""
        /\ HasPodUid(p)

\* C6: in every adjustment returned by CreateContainer the environment
\* additions contain at most one entry with key container_uuid.
C6_AtMostOneUuid ==
    \A p \in Procs :
        Adjusted(p) => Count(result[p].adjust[1].Env, IsUuidEnv) <= 1

\* C7: when the container declares no container_uuid entry, the
\* container_uuid additions are: the container id alone if it is non-empty;
\* otherwise the pod UID alone if a sandbox is supplied and carries it;
\* otherwise none.
C7_UuidStrictPriority ==
    \A p \in Procs :
        (Adjusted(p) /\ ~DeclaresUuid(p)) =>
            SelectSeq(result[p].adjust[1].Env, IsUuidEnv) =
                IF container[p].Id # ""
                THEN <<[Key |-> "container_uuid", Value |-> container[p].Id]>>
                ELSE IF HasPodUid(p)
                     THEN <<[Key |-> "container_uuid",
                             Value |-> pod[p][1].Annotations["io.kubernetes.pod.uid"]]>>
                     ELSE <<>>

\* The cgroup step of invocation p has run without an error: adjust[p] is
\* the adjustment as configureCgroupMount left it, or a later one.
CgroupStepPassed(p) ==
    \/ pc[p] \in {"tmpfs", "env"}
    \/ Adjusted(p)

\* C8: when the container's /sys/fs/cgroup mount has the option ro, the
\* replacement mount that configureCgroupMount adds has the same
\* destination, type and source, and options of the same length in which
\* every ro is replaced by rw and every other option keeps its position;
\* the replacement contains no ro.
C8_ReplacementKeepsMount ==
    \A p \in Procs :
        (CgroupStepPassed(p) /\ HostHasCgroup /\ DeclaredCgroupRO(p)) =>
            LET old == DeclaredCgroup(p)
                ms  == adjust[p].Mounts
            IN  /\ \E k \in 1..Len(ms) : IsCgroupAddition(ms[k])
                /\ \A k \in 1..Len(ms) :
                      IsCgroupAddition(ms[k]) =>
                          /\ ms[k].Destination = old.Destination
                          /\ ms[k].Type = old.Type
                          /\ ms[k].Source = old.Source
                          /\ Len(ms[k].Options) = Len(old.Options)
                          /\ \A i \in 1..Len(old.Options) :
                                /\ old.Options[i] = "ro" => ms[k].Options[i] = "rw"
                                /\ old.Options[i] # "ro" => ms[k].Options[i] = old.Options[i]
                          /\ \A i \in 1..Len(ms[k].Options) : ms[k].Options[i] # "ro"

\* C8 witness: the cgroup step has rewritten a cgroup2 mount whose options
\* are ro, nosuid, ro.
C8_Witness ==
    \E p \in Procs :
        /\ pc[p] = "tmpfs"
        /\ HostHasCgroup
        /\ DeclaredCgroupRO(p)
        /\ DeclaredCgroup(p).Type = "cgroup2"
        /\ DeclaredCgroup(p).Options = <<"ro", "nosuid", "ro">>
        /\ \E k \in 1..Len(adjust[p].Mounts) :
              adjust[p].Mounts[k].Options = <<"rw", "nosuid", "rw">>

\* C9: every adjustment returned by CreateContainer contains either exactly
\* one removal and exactly one addition for /sys/fs/cgroup or none of
\* either; the pair is present exactly when the host has a cgroup
\* filesystem and the container's /sys/fs/cgroup mount lists ro.
C9_CgroupPairOrNothing ==
    \A p \in Procs :
        Adjusted(p) =>
            LET ms       == result[p].adjust[1].Mounts
                removals == Count(ms, IsCgroupRemoval)
                adds     == Count(ms, IsCgroupAddition)
            IN  /\ \/ removals = 1 /\ adds = 1
                   \/ removals = 0 /\ adds = 0
                /\ (removals = 1 /\ adds = 1) <=> (HostHasCgroup /\ DeclaredCgroupRO(p))

\* C9 witness: an adjustment with the pair has been returned for a
\* container that declares a second /sys/fs/cgroup mount.
C9_Witness ==
    \E p \in Procs :
        /\ Adjusted(p)
        /\ Count(result[p].adjust[1].Mounts, IsCgroupRemoval) = 1
        /\ Count(result[p].adjust[1].Mounts, IsCgroupAddition) = 1
        /\ Count(container[p].Mounts, IsCgroupAddition) = 2

\* The catalog of C10: destination and mode, in order.
C10_Catalog ==
    << [dest |-> <<"/run">>,             mode |-> "mode=755"],
       [dest |-> <<"/run/lock">>,        mode |-> "mode=755"],
       [dest |-> <<"/tmp">>,             mode |-> "mode=1777"],
       [dest |-> <<"/var/log/journal">>, mode |-> "mode=755"] >>

\* The additions of invocation p that are not directives for /sys/fs/cgroup.
C10_Added(p) ==
    SelectSeq(adjust[p].Mounts,
              LAMBDA m : ~IsCgroupRemoval(m) /\ ~IsCgroupAddition(m))

\* The catalog position of a destination.
C10_Index(dest) == CHOOSE i \in 1..Len(C10_Catalog) : C10_Catalog[i].dest = dest

\* C10: addSystemdTmpfsMounts adds, for each of /run, /run/lock, /tmp and
\* /var/log/journal in this order, a tmpfs mount with source tmpfs and
\* options rw, rprivate, nosuid, nodev and the mode (mode=1777 for /tmp,
\* mode=755 for the others) exactly when the container declares no mount at
\* that destination; a container that declares none of the four gets
\* exactly the four additions in catalog order.
C10_TmpfsCatalog ==
    \A p \in Procs :
        (pc[p] = "env" \/ Adjusted(p)) =>
            LET added    == C10_Added(p)
                declared == {container[p].Mounts[i].Destination :
                                i \in 1..Len(container[p].Mounts)}
            IN  /\ \A i \in 1..Len(C10_Catalog) :
                      (C10_Catalog[i].dest \notin declared) <=>
                          (\E j \in 1..Len(added) :
                              added[j].Destination = C10_Catalog[i].dest)
                /\ \A j \in 1..Len(added) :
                      \E i \in 1..Len(C10_Catalog) :
                          added[j] =
                              [Destination |-> C10_Catalog[i].dest,
                               Type |-> "tmpfs", Source |-> "tmpfs",
                               Options |-> <<"rw", "rprivate", "nosuid", "nodev",
                                             C10_Catalog[i].mode>>]
                /\ \A j, k \in 1..Len(added) :
                      j < k => C10_Index(added[j].Destination) < C10_Index(added[k].Destination)
                /\ (\A i \in 1..Len(C10_Catalog) : C10_Catalog[i].dest \notin declared) =>
                      [j \in 1..Len(added) |-> added[j].Destination] =
                          << <<"/run">>, <<"/run/lock">>, <<"/tmp">>, <<"/var/log/journal">> >>

\* C10 witness: the tmpfs step has run for a container that declares /tmp
\* and /sys/fs/cgroup with ro, and has added /run, /run/lock and
\* /var/log/journal after the cgroup pair.
C10_Witness ==
    \E p \in Procs :
        /\ pc[p] = "env"
        /\ DeclaredCgroupRO(p)
        /\ Len(adjust[p].Mounts) = 5
        /\ [j \in 1..3 |-> C10_Added(p)[j].Destination] =
              << <<"/run">>, <<"/run/lock">>, <<"/var/log/journal">> >>
        /\ \E i \in 1..Len(container[p].Mounts) :
              container[p].Mounts[i].Destination = <<"/tmp">>

\* The destinations of the four tmpfs mounts.
C11_TmpfsDestinations ==
    {<<"/run">>, <<"/run/lock">>, <<"/tmp">>, <<"/var/log/journal">>}

\* C11: idempotence.  When the adjustment computed for a container has been
\* applied to it and CreateContainer has run again on the result, the second
\* adjustment contains no removal and no addition for /sys/fs/cgroup and no
\* addition for any of the four tmpfs destinations.
C11_Idempotent ==
    \A p \in Procs :
        (applied[p] # Nil /\ pc[p] = "done") =>
            /\ result[p].adjust # Nil
            /\ \A k \in 1..Len(result[p].adjust[1].Mounts) :
                  LET m == result[p].adjust[1].Mounts[k]
                  IN  /\ ~IsCgroupRemoval(m)
                      /\ ~IsCgroupAddition(m)
                      /\ m.Destination \notin C11_TmpfsDestinations

\* C11 witness: the second run has returned for a container whose first
\* adjustment rewrote /sys/fs/cgroup and added all four tmpfs mounts.
C11_Witness ==
    \E p \in Procs :
        /\ applied[p] # Nil
        /\ Adjusted(p)
        /\ Count(applied[p][1].Mounts, IsCgroupRemoval) = 1
        /\ Len(applied[p][1].Mounts) = 6
        /\ Count(container[p].Mounts, IsCgroupAddition) = 1

\* The declared destinations of the container of p.
DeclaredDestinations(p) ==
    {container[p].Mounts[i].Destination : i \in 1..Len(container[p].Mounts)}

\* C12: when the host has no cgroup filesystem at /sys/fs/cgroup,
\* CreateContainer on a detected systemd container returns no error and an
\* adjustment with no directive for /sys/fs/cgroup, while the tmpfs mounts
\* and the environment variables are still added; also when the container
\* declares no /sys/fs/cgroup mount or one with ro.
C12_HostWithoutCgroup ==
    \A p \in Procs :
        (pc[p] = "done" /\ isSystemd[p] /\ hostStat = "ENOENT") =>
            /\ result[p].err = Nil
            /\ result[p].adjust # Nil
            /\ LET a == result[p].adjust[1]
               IN  /\ Count(a.Mounts, IsCgroupRemoval) = 0
                   /\ Count(a.Mounts, IsCgroupAddition) = 0
                   /\ \A d \in C11_TmpfsDestinations \ DeclaredDestinations(p) :
                         \E k \in 1..Len(a.Mounts) :
                             /\ a.Mounts[k].Destination = d
                             /\ a.Mounts[k].Type = "tmpfs"
                   /\ \E k \in 1..Len(a.Env) :
                         a.Env[k] = [Key |-> "container", Value |-> "other"]
                   /\ (~DeclaresUuid(p) /\ container[p].Id # "") =>
                         \E k \in 1..Len(a.Env) :
                             a.Env[k] = [Key |-> "container_uuid", Value |-> container[p].Id]

\* C12 witness: on a host without a cgroup filesystem an adjustment with
\* the four tmpfs mounts has been returned for a systemd container that
\* declares /sys/fs/cgroup with ro.
C12_Witness ==
    \E p \in Procs :
        /\ Adjusted(p)
        /\ isSystemd[p]
        /\ hostStat = "ENOENT"
        /\ DeclaredCgroupRO(p)
        /\ Len(result[p].adjust[1].Mounts) = 4

\* C14: the cgroup step is skipped only when the probe reports that
\* /sys/fs/cgroup does not exist.  When the probe fails with another error
\* (permission denied), a detected systemd container without a
\* /sys/fs/cgroup mount fails with the error and one whose mount lists ro
\* gets the rewrite, as when the probe succeeds.
C14_OtherProbeErrorIsPresent ==
    \A p \in Procs :
        (pc[p] = "done" /\ isSystemd[p]) =>
            /\ (hostStat = "EACCES" /\ ~DeclaresCgroup(p)) =>
                  /\ result[p].err = <<"cgroup mount required for systemd container">>
                  /\ result[p].adjust = Nil
            /\ (hostStat = "EACCES" /\ DeclaredCgroupRO(p)) =>
                  /\ result[p].adjust # Nil
                  /\ Count(result[p].adjust[1].Mounts, IsCgroupRemoval) = 1
                  /\ \E k \in 1..Len(result[p].adjust[1].Mounts) :
                        LET m == result[p].adjust[1].Mounts[k]
                        IN  /\ IsCgroupAddition(m)
                            /\ \A i \in 1..Len(m.Options) : m.Options[i] # "ro"
            /\ (result[p].adjust # Nil
                  /\ (~DeclaresCgroup(p)
                        \/ (DeclaredCgroupRO(p)
                              /\ Count(result[p].adjust[1].Mounts, IsCgroupAddition) = 0))) =>
                  hostStat = "ENOENT"

\* C14 witness: with a probe that fails with permission denied, a systemd
\* container without a /sys/fs/cgroup mount has returned the error.
C14_Witness ==
    \E p \in Procs :
        /\ pc[p] = "done"
        /\ isSystemd[p]
        /\ hostStat = "EACCES"
        /\ ~DeclaresCgroup(p)
        /\ result[p].err # Nil

\* Invocation p's arguments and locals are left as they are by a step that
\* is not p's own.
C13_OwnState(p) ==
    pc'[p] = pc[p] =>
        /\ adjust'[p] = adjust[p]
        /\ result'[p] = result[p]
        /\ isSystemd'[p] = isSystemd[p]
        /\ pod'[p] = pod[p]
        /\ container'[p] = container[p]

\* While invocation p is running, no step writes its sandbox or container.
C13_ArgumentsKept(p) ==
    (pc[p] # "idle" /\ pc'[p] # "idle") =>
        /\ pod'[p] = pod[p]
        /\ container'[p] = container[p]

\* When p has returned, its result is that of CreateContainer run alone on
\* p's arguments.
C13_ResultAsAlone(p) ==
    pc'[p] = "done" => result'[p] = CreateContainer(pod'[p], container'[p], hostStat')

\* Every line a step writes to the logger is a line of the invocation that
\* took the step: it carries that container's name, or is its argument dump.
C13_OwnLogLines ==
    \A i \in 1..Len(logOut') :
        \E p \in Procs :
            /\ pc'[p] # pc[p]
            /\ pc[p] # "idle"
            /\ \/ logOut'[i].ctr = containerName(pod[p], container[p])
               \/ logOut'[i].ctr = <<"CreateContainer">>

\* C13 as stated: in every interleaving of two invocations each returns the
\* same result as when it runs alone, each builds its own adjustment, no
\* invocation writes the sandbox, the container or any process-wide state
\* (the host, the verbose flag, the logger), and nothing shared but the
\* host probe is consulted.
C13_NoProcessWideStateTouched ==
    [][ /\ \A p \in Procs :
              C13_ResultAsAlone(p) /\ C13_OwnState(p) /\ C13_ArgumentsKept(p)
        /\ hostStat' = hostStat
        /\ verbose' = verbose
        /\ logOut' = <<>> ]_vars

\* C13 amended: in every interleaving of two invocations each returns the
\* same result as when it runs alone (a result that does not depend on the
\* verbose flag), each builds its own adjustment, and no invocation writes
\* the sandbox, the container, the host or the verbose flag; the one piece
\* of process-wide state an invocation writes is the logger, and it writes
\* only its own lines there.
C13_ConcurrentSafe ==
    [][ /\ \A p \in Procs :
              C13_ResultAsAlone(p) /\ C13_OwnState(p) /\ C13_ArgumentsKept(p)
        /\ hostStat' = hostStat
        /\ verbose' = verbose
        /\ C13_OwnLogLines ]_vars

\* C13 witness: one invocation has returned its adjustment while the other,
\* for another container, is between two of its steps and has begun to
\* build its own adjustment.
C13_Witness ==
    \E p, q \in Procs :
        /\ p # q
        /\ Adjusted(p)
        /\ pc[q] \in {"tmpfs", "env"}
        /\ container[p] # container[q]
        /\ adjust[q].Mounts # <<>>
        /\ adjust[q] # result[p].adjust[1]

====
